---- MODULE Spec2Model ----
(***************************************************************************)
(* The Slack inbound-message admission pipeline (prepareSlackMessage) and  *)
(* the mention gate (resolveMentionGating) as a state machine.             *)
(*                                                                         *)
(* One pipeline instance runs per inbound message.  prepareSlackMessage is *)
(* an async function: an instance runs atomically from one await to the    *)
(* next, so there is one action per resumption point.  Results of the      *)
(* external collaborators are drawn when the collaborator returns.         *)
(***************************************************************************)
EXTENDS Integers, Sequences, FiniteSets, TLC

VARIABLES
    ctx,              \* SlackMonitorContext + cfg: the configuration, fixed during a run
    msg,              \* msg[p]: the SlackMessageEvent (and opts) instance p was called with
    inst,             \* inst[p]: the locals and the position of pipeline instance p
    pairingStore,     \* pending pairing requests: sender id -> code
    channelHistories, \* ctx.channelHistories: history key -> sequence of entries
    systemEvents,     \* the events handed to enqueueSystemEvent, in order
    gateIn,           \* the MentionGateParams of a direct call of resolveMentionGating
    gateOut           \* its MentionGateResult

vars == <<ctx, msg, inst, pairingStore, channelHistories, systemEvents, gateIn, gateOut>>

-----------------------------------------------------------------------------
(* Bounds *)

\* number of pipeline instances in flight at once
NumProcs == 2

Procs == 1..NumProcs

-----------------------------------------------------------------------------
(* Values *)

\* an absent (undefined) string-valued field
None == "<none>"

\* an optional boolean is <<>> when absent, else <<b>>
OptBool == {<<>>, <<TRUE>>, <<FALSE>>}

\* a ?? b on optional booleans
Coalesce(a, b) == IF a # <<>> THEN a ELSE b

BotUser == "UBOT"

\* text is a sequence of tokens; " " is whitespace, "<@...>" a user mention,
\* "/status" a control command, "claw" a word the configured mention pattern matches
MentionOf(id) == "<@" \o id \o ">"

MentionTokens == {MentionOf(BotUser), MentionOf("U9")}

Texts ==
    { <<>>,
      <<" ">>,
      <<" ", "hi", " ">>,
      <<MentionOf(BotUser), " ", "hi">>,
      <<MentionOf("U9"), " ", "hi">>,
      <<"/status">>,
      <<"claw", " ", "hi">> }

Includes(text, tok) == \E i \in DOMAIN text : text[i] = tok

RECURSIVE TrimStart(_)
TrimStart(text) ==
    IF text # <<>> /\ Head(text) = " " THEN TrimStart(Tail(text)) ELSE text

RECURSIVE TrimEnd(_)
TrimEnd(text) ==
    IF text # <<>> /\ text[Len(text)] = " "
    THEN TrimEnd(SubSeq(text, 1, Len(text) - 1))
    ELSE text

\* String.prototype.trim
Trim(text) == TrimEnd(TrimStart(text))

\* String.prototype.toLowerCase on the ids and names of the model
Lower(s) ==
    CASE s = "U1" -> "u1"
      [] s = "U2" -> "u2"
      [] s = "UBOT" -> "ubot"
      [] s = "B1" -> "b1"
      [] s = "Alice" -> "alice"
      [] OTHER -> s

-----------------------------------------------------------------------------
(* channels/mention-gating.ts *)

\* faulty variant: the bypass flag is left out of the effective mention
resolveMentionGating_NoBypass(params) ==
    LET implicit == params.implicitMention = <<TRUE>>
        effectiveWasMentioned == params.wasMentioned \/ implicit
        shouldSkip ==
            params.requireMention /\ params.canDetectMention /\ ~effectiveWasMentioned
    IN  [effectiveWasMentioned |-> effectiveWasMentioned, shouldSkip |-> shouldSkip]

\* faulty variant: the gate skips whether or not a mention can be detected
resolveMentionGating_NoDetect(params) ==
    LET implicit == params.implicitMention = <<TRUE>>
        bypass == params.shouldBypassMention = <<TRUE>>
        effectiveWasMentioned == params.wasMentioned \/ implicit \/ bypass
        shouldSkip == params.requireMention /\ ~effectiveWasMentioned
    IN  [effectiveWasMentioned |-> effectiveWasMentioned, shouldSkip |-> shouldSkip]

resolveMentionGating(params) ==
    LET implicit == params.implicitMention = <<TRUE>>
        bypass == params.shouldBypassMention = <<TRUE>>
        effectiveWasMentioned == params.wasMentioned \/ implicit \/ bypass
        shouldSkip ==
            params.requireMention /\ params.canDetectMention /\ ~effectiveWasMentioned
    IN  [effectiveWasMentioned |-> effectiveWasMentioned, shouldSkip |-> shouldSkip]

MentionGateParams ==
    [requireMention : BOOLEAN, canDetectMention : BOOLEAN, wasMentioned : BOOLEAN,
     implicitMention : OptBool, shouldBypassMention : OptBool]

NoGateCall == [called |-> FALSE]

-----------------------------------------------------------------------------
(* prepareSlackMessage: values computed from the message and the configuration *)

ChannelKinds == {"im", "mpim", "channel", "group"}

\* normalizeSlackChannelType, on an event that carries one of the four channel types
normalizeSlackChannelType(channelType, channelId) == channelType

resolvedChannelType(m) == normalizeSlackChannelType(m.channel_type, m.channel)

isDirectMessage(m) == resolvedChannelType(m) = "im"

isGroupDm(m) == resolvedChannelType(m) = "mpim"

isRoom(m) == resolvedChannelType(m) = "channel" \/ resolvedChannelType(m) = "group"

isRoomish(m) == isRoom(m) \/ isGroupDm(m)

\* channelConfig is null unless the channel is a room
NoChannelConfig == [allowBots |-> <<>>, users |-> {}, requireMention |-> <<>>]

resolveSlackChannelConfig(m) == ctx.channelConfig

channelConfig(m) == IF isRoom(m) THEN resolveSlackChannelConfig(m) ELSE NoChannelConfig

allowBots(m) ==
    Coalesce(Coalesce(Coalesce(channelConfig(m).allowBots, ctx.accountAllowBots),
                      ctx.cfgAllowBots), <<FALSE>>)[1]

isBotMessage(m) == m.bot_id # None

\* message.user ?? (isBotMessage ? message.bot_id : undefined)
senderId(m) == IF m.user # None THEN m.user ELSE IF isBotMessage(m) THEN m.bot_id ELSE None

\* resolveSlackEffectiveAllowFrom: the configured allow-from list, lower-cased
allowFromLower == {Lower(e) : e \in ctx.allowFrom}

\* allowListMatches: a case-insensitive match of the id against the list
allowListMatches(allowList, id) == Lower(id) \in allowList

\* isSlackSenderAllowListed: the id or the name matches the list
isSlackSenderAllowListed(allowListLower, id, name) ==
    Lower(id) \in allowListLower \/ Lower(name) \in allowListLower

\* resolveSlackUserAllowed: no list authorizes everyone, else the id or the name matches
resolveSlackUserAllowed(allowList, userId, userName) ==
    allowList = {} \/ userId \in allowList \/ userName \in allowList

\* buildMentionRegexes yields no regex unless a mention pattern is configured;
\* the configured pattern matches the word "claw"
matchesMentionPatterns(text) == ctx.mentionPatterns /\ Includes(text, "claw")

\* /<@[^>]+>/.test(text)
hasAnyMention(text) == \E i \in DOMAIN text : text[i] \in MentionTokens

\* hasControlCommand: the text contains a recognized control command
hasControlCommand(text) == Includes(text, "/status")

wasMentioned(m) ==
    IF m.optsWasMentioned # <<>>
    THEN m.optsWasMentioned[1]
    ELSE /\ ~isDirectMessage(m)
         /\ \/ (ctx.botUserId # None /\ Includes(m.text, MentionOf(ctx.botUserId)))
            \/ matchesMentionPatterns(m.text)

implicitMention(m) ==
    /\ ~isDirectMessage(m)
    /\ ctx.botUserId # None
    /\ m.thread_ts # None
    /\ m.parent_user_id = ctx.botUserId

shouldRequireMention(m) ==
    IF isRoom(m)
    THEN Coalesce(channelConfig(m).requireMention, <<ctx.defaultRequireMention>>)[1]
    ELSE FALSE

\* faulty variant: detection asks for the bot user id and a mention pattern
canDetectMention_Both == ctx.botUserId # None /\ ctx.mentionPatterns

canDetectMention == ctx.botUserId # None \/ ctx.mentionPatterns

\* sender?.name ?? message.username?.trim() ?? message.user ?? message.bot_id ?? "unknown"
resolveSenderName(m, name) ==
    IF name # None THEN name
    ELSE IF m.username # None THEN m.username
    ELSE IF m.user # None THEN m.user
    ELSE IF m.bot_id # None THEN m.bot_id
    ELSE "unknown"

-----------------------------------------------------------------------------
(* prepareSlackMessage: the position and the locals of one instance *)

NoPayload == <<>>

IdleLocals ==
    [pc |-> "idle", result |-> "pending", droppedAt |-> "none",
     gates |-> <<>>, calls |-> <<>>,
     channelName |-> None, senderName |-> None,
     pairCode |-> 0, pairCreated |-> FALSE, sendOk |-> FALSE,
     wasMentioned |-> FALSE, implicitMention |-> FALSE,
     commandAuthorized |-> FALSE, shouldBypassMention |-> FALSE,
     effectiveWasMentioned |-> FALSE, shouldSkip |-> FALSE,
     placeholder |-> None, rawBody |-> <<>>,
     ack |-> "none", historyKey |-> None,
     body |-> <<>>, starterText |-> None, starterUserId |-> None, payload |-> NoPayload]

InitLocals == [IdleLocals EXCEPT !.pc = "start"]

\* a collaborator is invoked
Call(l, name) == [l EXCEPT !.calls = Append(l.calls, name)]

\* the conditions of consecutive `if (...) return null` statements, in program order:
\* each gate that is reached is evaluated, and the first that holds drops the message
RECURSIVE RunGates(_, _)
RunGates(gs, acc) ==
    IF gs = <<>> THEN [gates |-> acc, droppedAt |-> "none"]
    ELSE LET h == Head(gs) IN
         IF ~h.reached THEN RunGates(Tail(gs), acc)
         ELSE IF h.drops THEN [gates |-> Append(acc, h.gate), droppedAt |-> h.gate]
         ELSE RunGates(Tail(gs), Append(acc, h.gate))

Gate(name, reached, drops) == [gate |-> name, reached |-> reached, drops |-> drops]

\* return null at the first gate that drops
ApplyGates(l, gs) ==
    LET r == RunGates(gs, <<>>) IN
    [l EXCEPT !.gates = l.gates \o r.gates,
              !.droppedAt = r.droppedAt,
              !.result = IF r.droppedAt # "none" THEN "null" ELSE l.result,
              !.pc = IF r.droppedAt # "none" THEN "done" ELSE l.pc]

-----------------------------------------------------------------------------
(* prepareSlackMessage: from the call to the allow-from lookup (lines 37-101) *)

\* faulty variant: the channel is checked before the bot and sender filters
EarlyGates_ChannelFirst(l, m, allowed) ==
    LET l1 == ApplyGates(Call(l, "isChannelAllowed"),
                << Gate("channelAllowed", TRUE, ~allowed) >>)
        l2 == ApplyGates(l1,
                << Gate("self", isBotMessage(m),
                        m.user # None /\ ctx.botUserId # None /\ m.user = ctx.botUserId),
                   Gate("botAllow", isBotMessage(m), ~allowBots(m)),
                   Gate("dmSender", TRUE, isDirectMessage(m) /\ m.user = None),
                   Gate("senderId", TRUE, senderId(m) = None) >>)
    IN  IF l1.pc = "done" THEN l1
        ELSE IF l2.pc = "done" THEN l2
        ELSE [Call(l2, "resolveSlackEffectiveAllowFrom") EXCEPT !.pc = "resolveAllowFrom"]

\* the statements between the channel lookup and `await resolveSlackEffectiveAllowFrom`
EarlyGates(l, m, allowed) ==
    LET l1 == ApplyGates(l,
                << Gate("self", isBotMessage(m),
                        m.user # None /\ ctx.botUserId # None /\ m.user = ctx.botUserId),
                   Gate("botAllow", isBotMessage(m), ~allowBots(m)),
                   Gate("dmSender", TRUE, isDirectMessage(m) /\ m.user = None),
                   Gate("senderId", TRUE, senderId(m) = None) >>)
        l2 == ApplyGates(Call(l1, "isChannelAllowed"),
                << Gate("channelAllowed", TRUE, ~allowed) >>)
    IN  IF l1.pc = "done" THEN l1
        ELSE IF l2.pc = "done" THEN l2
        ELSE [Call(l2, "resolveSlackEffectiveAllowFrom") EXCEPT !.pc = "resolveAllowFrom"]

-----------------------------------------------------------------------------
(* prepareSlackMessage: the direct-message policy (lines 103-157) *)

\* line 109: direct messages are switched off
dmDisabled == ~ctx.dmEnabled \/ ctx.dmPolicy = "disabled"

\* faulty variant: only the allowlist policy asks for the allowlist
dmNotPermitted_AllowlistOnly(m) ==
    ctx.dmPolicy = "allowlist" /\ ~allowListMatches(allowFromLower, m.user)

\* lines 113-118: the policy asks for the allowlist and the sender is not on it
dmNotPermitted(m) ==
    ctx.dmPolicy # "open" /\ ~allowListMatches(allowFromLower, m.user)

\* the direct message takes the pairing subflow (line 119)
dmPairing(m) ==
    /\ isDirectMessage(m)
    /\ m.user # None
    /\ ~dmDisabled
    /\ dmNotPermitted(m)
    /\ ctx.dmPolicy = "pairing"

\* the direct message is dropped by the policy without the pairing subflow
dmBlocked(m) == m.user = None \/ dmDisabled \/ dmNotPermitted(m)

-----------------------------------------------------------------------------
(* prepareSlackMessage: sender authorization and the mention gate (lines 183-237) *)

channelUserAuthorized(m, senderName) ==
    IF isRoom(m)
    THEN resolveSlackUserAllowed(channelConfig(m).users, senderId(m), senderName)
    ELSE TRUE

commandAuthorized(m, senderName) ==
    /\ isSlackSenderAllowListed(allowFromLower, senderId(m), senderName)
    /\ channelUserAuthorized(m, senderName)

\* shouldHandleTextCommands({cfg, surface: "slack"})
allowTextCommands == ctx.textCommands

\* faulty variant: the bypass asks for a mention instead of its absence
shouldBypassMention_Mentioned(m, senderName) ==
    /\ allowTextCommands
    /\ isRoom(m)
    /\ shouldRequireMention(m)
    /\ wasMentioned(m)
    /\ ~hasAnyMention(m.text)
    /\ commandAuthorized(m, senderName)
    /\ hasControlCommand(m.text)

shouldBypassMention(m, senderName) ==
    /\ allowTextCommands
    /\ isRoom(m)
    /\ shouldRequireMention(m)
    /\ ~wasMentioned(m)
    /\ ~hasAnyMention(m.text)
    /\ commandAuthorized(m, senderName)
    /\ hasControlCommand(m.text)

mentionGate(m, senderName) ==
    resolveMentionGating(
        [requireMention |-> shouldRequireMention(m),
         canDetectMention |-> canDetectMention,
         wasMentioned |-> wasMentioned(m),
         implicitMention |-> <<implicitMention(m)>>,
         shouldBypassMention |-> <<shouldBypassMention(m, senderName)>>])

\* the statements from the resolved sender name to `await resolveSlackMedia`
AfterSender(l, m, name) ==
    LET senderName == resolveSenderName(m, name)
        gate == mentionGate(m, senderName)
        l1 == [l EXCEPT !.senderName = senderName]
        l2 == ApplyGates(l1,
                << Gate("roomAuth", TRUE, isRoom(m) /\ ~channelUserAuthorized(m, senderName)) >>)
        l3 == [l2 EXCEPT !.commandAuthorized = commandAuthorized(m, senderName),
                         !.shouldBypassMention = shouldBypassMention(m, senderName),
                         !.effectiveWasMentioned = gate.effectiveWasMentioned,
                         !.shouldSkip = gate.shouldSkip]
        l4 == ApplyGates(l3,
                << Gate("mention", TRUE,
                        isRoom(m) /\ shouldRequireMention(m) /\ gate.shouldSkip) >>)
    IN  IF l2.pc = "done" THEN l2
        ELSE IF l4.pc = "done" THEN l4
        ELSE [Call(l4, "resolveSlackMedia") EXCEPT !.pc = "resolveMedia"]

\* the statements from the route to the sender-name lookup (lines 159-183)
RouteAndMention(l, m) ==
    LET l1 == [Call(l, "resolveAgentRoute") EXCEPT
                    !.wasMentioned = wasMentioned(m),
                    !.implicitMention = implicitMention(m)]
    IN  IF m.user # None
        THEN [Call(l1, "resolveUserName") EXCEPT !.pc = "resolveUserName"]
        ELSE AfterSender(l1, m, None)

\* the statements from the allow-from list to the next await (lines 103-183)
AfterAllowFrom(l, m) ==
    IF dmPairing(m)
    THEN [Call([l EXCEPT !.gates = Append(l.gates, "dmPolicy")], "resolveUserName")
            EXCEPT !.pc = "pairResolveUserName"]
    ELSE LET l1 == ApplyGates(l, << Gate("dmPolicy", isDirectMessage(m), dmBlocked(m)) >>)
         IN  IF l1.pc = "done" THEN l1 ELSE RouteAndMention(l1, m)

-----------------------------------------------------------------------------
(* prepareSlackMessage: body, acknowledgment, session keys, history (lines 239-343) *)

\* faulty variant: the text is not trimmed
rawBody_NoTrim(m, placeholder) ==
    IF m.text # <<>> THEN m.text
    ELSE IF placeholder # None THEN <<placeholder>>
    ELSE <<>>

\* (message.text ?? "").trim() || media?.placeholder || ""
rawBody(m, placeholder) ==
    IF Trim(m.text) # <<>> THEN Trim(m.text)
    ELSE IF placeholder # None THEN <<placeholder>>
    ELSE <<>>

\* resolveAckReaction(cfg, route.agentId) ?? ""
ackReactionValue == IF ctx.ackReaction # None THEN ctx.ackReaction ELSE ""

\* faulty variant: the scope group-all admits rooms only
shouldAckReaction_RoomsOnly(m, l) ==
    IF ctx.ackReaction = None \/ ctx.ackReaction = "" THEN FALSE
    ELSE IF ctx.ackReactionScope = "all" THEN TRUE
    ELSE IF ctx.ackReactionScope = "direct" THEN isDirectMessage(m)
    ELSE IF ctx.ackReactionScope = "group-all" THEN isRoom(m)
    ELSE IF ctx.ackReactionScope = "group-mentions"
         THEN IF ~isRoom(m) THEN FALSE
              ELSE IF ~shouldRequireMention(m) THEN FALSE
              ELSE IF ~canDetectMention THEN FALSE
              ELSE l.effectiveWasMentioned
    ELSE FALSE

shouldAckReaction(m, l) ==
    IF ctx.ackReaction = None \/ ctx.ackReaction = "" THEN FALSE
    ELSE IF ctx.ackReactionScope = "all" THEN TRUE
    ELSE IF ctx.ackReactionScope = "direct" THEN isDirectMessage(m)
    ELSE IF ctx.ackReactionScope = "group-all" THEN isRoomish(m)
    ELSE IF ctx.ackReactionScope = "group-mentions"
         THEN IF ~isRoom(m) THEN FALSE
              ELSE IF ~shouldRequireMention(m) THEN FALSE
              ELSE IF ~canDetectMention THEN FALSE
              ELSE l.effectiveWasMentioned
    ELSE FALSE

\* lines 264-277: the reaction is sent, its promise is left pending
AckStage(l, m) ==
    IF shouldAckReaction(m, l) /\ m.ts # None /\ ackReactionValue # ""
    THEN [Call(l, "reactSlackMessage") EXCEPT !.ack = "pending"]
    ELSE l

\* resolveAgentRoute(...).sessionKey: fixed by the peer kind and the peer id
baseSessionKey(m) ==
    "agent:main:slack:"
        \o (IF isDirectMessage(m) THEN "dm" ELSE IF isRoom(m) THEN "channel" ELSE "group")
        \o ":"
        \o (IF isDirectMessage(m)
            THEN (IF m.user # None THEN m.user ELSE "unknown")
            ELSE m.channel)

hasThreadTs(m) == m.thread_ts # None /\ Len(m.thread_ts) > 0

\* faulty variant: a message whose thread id is its own id is never a thread reply
isThreadReply_Strict(m) == hasThreadTs(m) /\ m.thread_ts # m.ts

isThreadReply(m) ==
    hasThreadTs(m) /\ (m.thread_ts # m.ts \/ m.parent_user_id # None)

\* resolveThreadSessionKeys: the base key, scoped by the thread id when there is one
resolveThreadSessionKeys(base, threadId, parentSessionKey) ==
    [sessionKey |-> IF threadId # None THEN base \o ":thread:" \o threadId ELSE base,
     parentSessionKey |-> parentSessionKey]

\* faulty variant: the thread is identified by the id of the message itself
threadKeys_MessageTs(m) ==
    resolveThreadSessionKeys(
        baseSessionKey(m),
        IF isThreadReply(m) THEN m.ts ELSE None,
        IF isThreadReply(m) /\ ctx.threadInheritParent THEN baseSessionKey(m) ELSE None)

threadKeys(m) ==
    resolveThreadSessionKeys(
        baseSessionKey(m),
        IF isThreadReply(m) THEN m.thread_ts ELSE None,
        IF isThreadReply(m) /\ ctx.threadInheritParent THEN baseSessionKey(m) ELSE None)

\* faulty variant: the history is kept by channel under every scope
historyKey_Channel(m) == m.channel

historyKey(m) ==
    IF isThreadReply(m) /\ ctx.threadHistoryScope = "thread"
    THEN threadKeys(m).sessionKey
    ELSE m.channel

roomLabel(m, l) == "#" \o (IF l.channelName # None THEN l.channelName ELSE m.channel)

\* faulty variant: every kind of message takes part in the history
usesHistory_AnyKind(m) == ctx.historyLimit > 0

\* lines 280-288 (the entry is undefined for direct messages and without a limit)
usesHistory(m) == isRoomish(m) /\ ctx.historyLimit > 0

historyEntry(m, l) == [sender |-> l.senderName, body |-> l.rawBody, messageId |-> m.ts]

HistoryOf(h, key) == IF key \in DOMAIN h THEN h[key] ELSE <<>>

\* faulty variant: the window grows without eviction
appendHistoryEntry_NoEvict(h, key, entry, limit) ==
    [k \in DOMAIN h \cup {key} |->
        IF k = key THEN Append(HistoryOf(h, key), entry) ELSE h[k]]

\* appendHistoryEntry: append, then keep the newest `limit` entries
appendHistoryEntry(h, key, entry, limit) ==
    LET all == Append(HistoryOf(h, key), entry)
        kept == IF Len(all) > limit THEN SubSeq(all, Len(all) - limit + 1, Len(all)) ELSE all
    IN  [k \in DOMAIN h \cup {key} |-> IF k = key THEN kept ELSE h[k]]

\* formatAgentEnvelope of the current message (lines 317-323)
formatCurrent(m, l) ==
    [from |-> l.senderName, body |-> l.rawBody, id |-> m.ts, channel |-> m.channel]

\* formatEntry (lines 333-341)
formatEntry(m, l, entry) ==
    [from |-> roomLabel(m, l), sender |-> entry.sender, body |-> entry.body,
     id |-> entry.messageId, channel |-> m.channel]

\* buildHistoryContextFromMap: the retained entries before the current one, oldest
\* first, ahead of the current message
buildHistoryContext(m, l, h) ==
    LET es == HistoryOf(h, historyKey(m))
    IN  [context |-> [i \in 1..(Len(es) - 1) |-> formatEntry(m, l, es[i])],
         current |-> formatCurrent(m, l)]

\* combinedBody (lines 325-343), given the history map after the append
combinedBody(m, l, h) ==
    IF usesHistory(m)
    THEN buildHistoryContext(m, l, h)
    ELSE [context |-> <<>>, current |-> formatCurrent(m, l)]

slackFrom(m) ==
    IF isDirectMessage(m) THEN "slack:" \o m.user
    ELSE IF isRoom(m) THEN "slack:channel:" \o m.channel
    ELSE "slack:group:" \o m.channel

slackTo(m) ==
    IF isDirectMessage(m) THEN "user:" \o m.user ELSE "channel:" \o m.channel

\* ctxPayload and the return (lines 384-436)
Finish(l, m, threadStarterBody) ==
    LET payload ==
            [Body |-> l.body,
             RawBody |-> l.rawBody,
             CommandBody |-> l.rawBody,
             From |-> slackFrom(m),
             To |-> slackTo(m),
             SessionKey |-> threadKeys(m).sessionKey,
             ChatType |-> IF isDirectMessage(m) THEN "direct"
                          ELSE IF isRoom(m) THEN "room" ELSE "group",
             SenderName |-> l.senderName,
             SenderId |-> senderId(m),
             MessageSid |-> m.ts,
             ReplyToId |-> IF m.thread_ts # None THEN m.thread_ts ELSE m.ts,
             ParentSessionKey |-> threadKeys(m).parentSessionKey,
             ThreadStarterBody |-> threadStarterBody,
             WasMentioned |-> IF isRoomish(m) THEN <<l.effectiveWasMentioned>> ELSE <<>>,
             CommandAuthorized |-> l.commandAuthorized]
        l1 == ApplyGates(l, << Gate("replyTarget", TRUE, payload.To = "") >>)
    IN  IF l1.pc = "done" THEN l1
        ELSE [l1 EXCEPT !.pc = "done", !.result = "envelope", !.payload = <<payload>>]

\* faulty variant: the reaction is sent before the body is checked
AfterMedia_AckFirst(l, m, placeholder, h) ==
    LET l0 == AckStage([l EXCEPT !.placeholder = placeholder,
                                 !.rawBody = rawBody(m, placeholder)], m)
        l1 == ApplyGates(l0, << Gate("body", TRUE, rawBody(m, placeholder) = <<>>) >>)
        l3 == Call([l1 EXCEPT !.historyKey = historyKey(m)], "enqueueSystemEvent")
        l4 == IF usesHistory(m) THEN Call(l3, "buildHistoryContextFromMap") ELSE l3
        l5 == [l4 EXCEPT !.body = combinedBody(m, l4, h)]
    IN  IF l1.pc = "done" THEN l1
        ELSE IF isThreadReply(m) /\ m.thread_ts # None
        THEN [Call(l5, "resolveSlackThreadStarter") EXCEPT !.pc = "resolveThreadStarter"]
        ELSE Finish(l5, m, <<>>)

\* the statements from the resolved media to the thread-starter lookup or the
\* return (lines 244-361), given the history map after this message's append
AfterMedia(l, m, placeholder, h) ==
    LET l1 == ApplyGates([l EXCEPT !.placeholder = placeholder,
                                   !.rawBody = rawBody(m, placeholder)],
                << Gate("body", TRUE, rawBody(m, placeholder) = <<>>) >>)
        l2 == AckStage(l1, m)
        l3 == Call([l2 EXCEPT !.historyKey = historyKey(m)], "enqueueSystemEvent")
        l4 == IF usesHistory(m) THEN Call(l3, "buildHistoryContextFromMap") ELSE l3
        l5 == [l4 EXCEPT !.body = combinedBody(m, l4, h)]
    IN  IF l1.pc = "done" THEN l1
        ELSE IF isThreadReply(m) /\ m.thread_ts # None
        THEN [Call(l5, "resolveSlackThreadStarter") EXCEPT !.pc = "resolveThreadStarter"]
        ELSE Finish(l5, m, <<>>)

-----------------------------------------------------------------------------
(* Results of the external collaborators *)

\* ctx.resolveChannelName(channel).name
ChannelNames == {None, "general"}

\* ctx.resolveUserName(user)?.name
UserNames == {None, "Alice"}

\* resolveSlackMedia(...)?.placeholder
Placeholders == {None, "<media:image>"}

\* resolveSlackThreadStarter(...): nothing, a text, or a text with its author
Starters ==
    { [text |-> None, userId |-> None],
      [text |-> "root", userId |-> None],
      [text |-> "root", userId |-> "U2"] }

-----------------------------------------------------------------------------
(* Actions: one per resumption point of prepareSlackMessage *)

Others == <<ctx, msg, gateIn, gateOut>>

Step(p, l) == inst' = [inst EXCEPT ![p] = l]

\* the call, up to the first await (lines 34-45, and on to line 101 for an im event)
Start(p) ==
    /\ inst[p].pc = "start"
    /\ IF msg[p].channel_type = None \/ msg[p].channel_type # "im"
       THEN Step(p, [Call(inst[p], "resolveChannelName") EXCEPT !.pc = "resolveChannelName"])
       ELSE \E allowed \in BOOLEAN : Step(p, EarlyGates(inst[p], msg[p], allowed))
    /\ UNCHANGED <<pairingStore, channelHistories, systemEvents, Others>>

\* resolveChannelName has returned (lines 45-101)
ChannelNameResolved(p) ==
    /\ inst[p].pc = "resolveChannelName"
    /\ \E name \in ChannelNames, allowed \in BOOLEAN :
          Step(p, EarlyGates([inst[p] EXCEPT !.channelName = name], msg[p], allowed))
    /\ UNCHANGED <<pairingStore, channelHistories, systemEvents, Others>>

\* resolveSlackEffectiveAllowFrom has returned (lines 101-183)
AllowFromResolved(p) ==
    /\ inst[p].pc = "resolveAllowFrom"
    /\ Step(p, AfterAllowFrom(inst[p], msg[p]))
    /\ UNCHANGED <<pairingStore, channelHistories, systemEvents, Others>>

\* pairing: resolveUserName has returned, the upsert is called (lines 120-126)
PairUserNameResolved(p) ==
    /\ inst[p].pc = "pairResolveUserName"
    /\ \E name \in UserNames :
          Step(p, [Call([inst[p] EXCEPT !.senderName = name], "upsertChannelPairingRequest")
                     EXCEPT !.pc = "upsert"])
    /\ UNCHANGED <<pairingStore, channelHistories, systemEvents, Others>>

\* upsertChannelPairingRequest: the pending request of the id, created when there is none
upsertChannelPairingRequest(store, id) ==
    IF id \in DOMAIN store
    THEN [store |-> store, code |-> store[id], created |-> FALSE]
    ELSE LET code == Cardinality(DOMAIN store) + 1 IN
         [store |-> [k \in DOMAIN store \cup {id} |-> IF k = id THEN code ELSE store[k]],
          code |-> code, created |-> TRUE]

\* faulty variant: the reply is sent whether or not the request was created
AfterUpsert_AlwaysReply(l, m, code, created) ==
    [Call([l EXCEPT !.pairCode = code, !.pairCreated = created], "sendMessageSlack")
        EXCEPT !.pc = "sendPairingReply"]

\* faulty variant: a sender whose request is already pending is not dropped
AfterUpsert_FallThrough(l, m, code, created) ==
    LET l1 == [l EXCEPT !.pairCode = code, !.pairCreated = created]
    IN  IF created
        THEN [Call(l1, "sendMessageSlack") EXCEPT !.pc = "sendPairingReply"]
        ELSE RouteAndMention(l1, m)

\* the statements after the upsert (lines 127-154)
AfterUpsert(l, m, code, created) ==
    LET l1 == [l EXCEPT !.pairCode = code, !.pairCreated = created]
    IN  IF created
        THEN [Call(l1, "sendMessageSlack") EXCEPT !.pc = "sendPairingReply"]
        ELSE [l1 EXCEPT !.pc = "done", !.result = "null", !.droppedAt = "dmPolicy"]

\* pairing: the upsert has returned (lines 122-144)
UpsertReturned(p) ==
    /\ inst[p].pc = "upsert"
    /\ LET r == upsertChannelPairingRequest(pairingStore, msg[p].user) IN
          /\ pairingStore' = r.store
          /\ Step(p, AfterUpsert(inst[p], msg[p], r.code, r.created))
    /\ UNCHANGED <<channelHistories, systemEvents, Others>>

\* pairing: sendMessageSlack has returned or thrown (lines 131-154)
SendCompleted(p) ==
    /\ inst[p].pc = "sendPairingReply"
    /\ \E ok \in BOOLEAN :
          Step(p, [inst[p] EXCEPT !.sendOk = ok, !.pc = "done", !.result = "null",
                                  !.droppedAt = "dmPolicy"])
    /\ UNCHANGED <<pairingStore, channelHistories, systemEvents, Others>>

\* resolveUserName has returned (lines 183-239)
UserNameResolved(p) ==
    /\ inst[p].pc = "resolveUserName"
    /\ \E name \in UserNames : Step(p, AfterSender(inst[p], msg[p], name))
    /\ UNCHANGED <<pairingStore, channelHistories, systemEvents, Others>>

\* enqueueSystemEvent (lines 312-315)
systemEvent(m, l) ==
    [sessionKey |-> threadKeys(m).sessionKey, from |-> l.senderName, messageId |-> m.ts]

\* resolveSlackMedia has returned (lines 239-361, or to the return)
MediaResolved(p) ==
    /\ inst[p].pc = "resolveMedia"
    /\ \E placeholder \in Placeholders :
          LET m == msg[p]
              body == rawBody(m, placeholder)
              l0 == [inst[p] EXCEPT !.rawBody = body]
              h == IF body # <<>> /\ usesHistory(m)
                   THEN appendHistoryEntry(channelHistories, historyKey(m),
                                           historyEntry(m, l0), ctx.historyLimit)
                   ELSE channelHistories
          IN  /\ Step(p, AfterMedia(inst[p], m, placeholder, h))
              /\ channelHistories' = h
              /\ systemEvents' = IF body # <<>>
                                 THEN Append(systemEvents, systemEvent(m, l0))
                                 ELSE systemEvents
    /\ UNCHANGED <<pairingStore, Others>>

\* formatThreadStarterEnvelope (lines 371-376)
threadStarterBody(starter, name) ==
    [author |-> IF name # None THEN name
                ELSE IF starter.userId # None THEN starter.userId ELSE "Unknown",
     body |-> starter.text]

\* resolveSlackThreadStarter has returned (lines 362-436)
ThreadStarterResolved(p) ==
    /\ inst[p].pc = "resolveThreadStarter"
    /\ \E starter \in Starters :
          IF starter.text # None /\ starter.userId # None
          THEN Step(p, [Call([inst[p] EXCEPT !.starterText = starter.text,
                                              !.starterUserId = starter.userId],
                             "resolveUserName")
                          EXCEPT !.pc = "resolveStarterUserName"])
          ELSE Step(p, Finish(inst[p], msg[p],
                              IF starter.text # None
                              THEN <<threadStarterBody(starter, None)>> ELSE <<>>))
    /\ UNCHANGED <<pairingStore, channelHistories, systemEvents, Others>>

\* the thread starter's resolveUserName has returned (lines 368-436)
StarterUserNameResolved(p) ==
    /\ inst[p].pc = "resolveStarterUserName"
    /\ \E name \in UserNames :
          Step(p, Finish(inst[p], msg[p],
                         <<threadStarterBody([text |-> inst[p].starterText,
                                              userId |-> inst[p].starterUserId],
                                             name)>>))
    /\ UNCHANGED <<pairingStore, channelHistories, systemEvents, Others>>

\* faulty variant: a failed reaction is not caught and ends the call with its error
ReactionSettled_Propagates(p) ==
    /\ inst[p].ack = "pending"
    /\ \E ok \in BOOLEAN :
          Step(p, IF ok THEN [inst[p] EXCEPT !.ack = "ok"]
                  ELSE [inst[p] EXCEPT !.ack = "failed", !.pc = "done", !.result = "threw"])
    /\ UNCHANGED <<pairingStore, channelHistories, systemEvents, Others>>

\* the reaction's promise settles (lines 270-276)
ReactionSettled(p) ==
    /\ inst[p].ack = "pending"
    /\ \E ok \in BOOLEAN : Step(p, [inst[p] EXCEPT !.ack = IF ok THEN "ok" ELSE "failed"])
    /\ UNCHANGED <<pairingStore, channelHistories, systemEvents, Others>>

\* a direct call of resolveMentionGating
ApplyGate ==
    /\ gateOut = NoGateCall
    /\ gateIn \in MentionGateParams
    /\ gateOut' = [called |-> TRUE, result |-> resolveMentionGating(gateIn)]
    /\ UNCHANGED <<ctx, msg, inst, pairingStore, channelHistories, systemEvents, gateIn>>

-----------------------------------------------------------------------------
(* Initial states: the configuration and the inbound events *)

ChannelOf(kind) ==
    CASE kind = "im" -> "D1"
      [] kind = "mpim" -> "G1"
      [] kind = "group" -> "G2"
      [] OTHER -> "C1"

Event(kind, user, bot, text, ts, thread, opts) ==
    [channel_type |-> kind, channel |-> ChannelOf(kind), user |-> user, bot_id |-> bot,
     username |-> None, text |-> text, ts |-> ts,
     thread_ts |-> thread.thread_ts, parent_user_id |-> thread.parent_user_id,
     optsWasMentioned |-> opts]

NoEvent == Event("im", None, None, <<>>, None, [thread_ts |-> None, parent_user_id |-> None], <<>>)

NoThread == [thread_ts |-> None, parent_user_id |-> None]

\* a reply in a thread the bot started, and a reply in somebody else's thread
BotThread == [thread_ts |-> "T0", parent_user_id |-> BotUser]

OtherThread == [thread_ts |-> "T0", parent_user_id |-> "U2"]

BaseCtx ==
    [botUserId |-> BotUser,
     dmEnabled |-> TRUE, dmPolicy |-> "open", allowFrom |-> {},
     accountAllowBots |-> <<>>, cfgAllowBots |-> <<>>,
     channelConfig |-> NoChannelConfig, defaultRequireMention |-> TRUE,
     mentionPatterns |-> FALSE, textCommands |-> TRUE,
     historyLimit |-> 2, ackReaction |-> "eyes", ackReactionScope |-> "all",
     threadInheritParent |-> TRUE, threadHistoryScope |-> "thread"]

\* channel, account and global allowBots: unset; set by the account; the account
\* overridden by the channel
AllowBotsProfiles ==
    { [chan |-> <<>>, acct |-> <<>>, cfg |-> <<>>],
      [chan |-> <<>>, acct |-> <<TRUE>>, cfg |-> <<FALSE>>],
      [chan |-> <<FALSE>>, acct |-> <<TRUE>>, cfg |-> <<>>] }

\* the senders of the events: a human, a bot with and without a user id, the bot itself
Senders ==
    { [user |-> "U1", bot |-> None],
      [user |-> BotUser, bot |-> None],
      [user |-> None, bot |-> None],
      [user |-> "U1", bot |-> "B1"],
      [user |-> BotUser, bot |-> "B1"],
      [user |-> None, bot |-> "B1"] }

ProfilesOf(sender) ==
    IF sender.bot = None THEN {[chan |-> <<>>, acct |-> <<>>, cfg |-> <<>>]}
    ELSE AllowBotsProfiles

\* channel requireMention and the default: set, overriding, and inherited
RequireMentionProfiles ==
    { [chan |-> <<TRUE>>, default |-> FALSE],
      [chan |-> <<FALSE>>, default |-> TRUE],
      [chan |-> <<>>, default |-> TRUE] }

EmptyMap == [k \in {} |-> 0]

GateIdle == [requireMention |-> FALSE, canDetectMention |-> FALSE, wasMentioned |-> FALSE,
             implicitMention |-> <<>>, shouldBypassMention |-> <<>>]

\* one event is handed to prepareSlackMessage
InitOne(c, m, store) ==
    /\ ctx = c
    /\ msg = [p \in Procs |-> IF p = 1 THEN m ELSE NoEvent]
    /\ inst = [p \in Procs |-> IF p = 1 THEN InitLocals ELSE IdleLocals]
    /\ pairingStore = store
    /\ channelHistories = EmptyMap
    /\ systemEvents = <<>>
    /\ gateIn = GateIdle
    /\ gateOut = NoGateCall

\* a direct message, under every policy
InitDirect ==
    \E s \in Senders, bots \in AllowBotsProfiles, botUserId \in {None, BotUser},
       text \in {<<>>, <<" ">>, <<" ", "hi", " ">>, <<"/status">>},
       dmEnabled \in BOOLEAN, dmPolicy \in {"disabled", "open", "allowlist", "pairing"},
       allowFrom \in {{}, {"U1"}}, pending \in BOOLEAN, thread \in {NoThread, OtherThread} :
        /\ bots \in ProfilesOf(s)
        /\ pending => dmPolicy = "pairing"
        /\ InitOne([BaseCtx EXCEPT !.botUserId = botUserId,
                                   !.accountAllowBots = bots.acct,
                                   !.cfgAllowBots = bots.cfg,
                                   !.dmEnabled = dmEnabled,
                                   !.dmPolicy = dmPolicy,
                                   !.allowFrom = allowFrom],
                   Event("im", s.user, s.bot, text, "t1", thread, <<>>),
                   IF pending THEN [k \in {"U1"} |-> 1] ELSE EmptyMap)

\* a room or group-DM message from every kind of sender
InitSenders ==
    \E kind \in {"channel", "group", "mpim"}, s \in Senders, bots \in AllowBotsProfiles,
       botUserId \in {None, BotUser},
       text \in {<<>>, <<" ", "hi", " ">>, <<MentionOf(BotUser), " ", "hi">>},
       ts \in {None, "t1"} :
        /\ bots \in ProfilesOf(s)
        /\ InitOne([BaseCtx EXCEPT !.botUserId = botUserId,
                                   !.accountAllowBots = bots.acct,
                                   !.cfgAllowBots = bots.cfg,
                                   !.channelConfig =
                                       [allowBots |-> bots.chan, users |-> {},
                                        requireMention |-> <<>>]],
                   Event(kind, s.user, s.bot, text, ts, NoThread, <<>>),
                   EmptyMap)

\* a room message of a human sender, under every mention configuration
InitRoom ==
    \E botUserId \in {None, BotUser}, text \in Texts, opts \in OptBool,
       thread \in {NoThread, BotThread, OtherThread},
       users \in {{}, {"U1"}, {"Alice"}}, rm \in RequireMentionProfiles,
       mentionPatterns \in BOOLEAN, textCommands \in BOOLEAN, allowFrom \in {{}, {"U1"}} :
        InitOne([BaseCtx EXCEPT !.botUserId = botUserId,
                                !.channelConfig =
                                    [allowBots |-> <<>>, users |-> users,
                                     requireMention |-> rm.chan],
                                !.defaultRequireMention = rm.default,
                                !.mentionPatterns = mentionPatterns,
                                !.textCommands = textCommands,
                                !.allowFrom = allowFrom],
                Event("channel", "U1", None, text, "t1", thread, opts),
                EmptyMap)

Init == InitDirect \/ InitSenders \/ InitRoom

Next ==
    \E p \in Procs :
        \/ Start(p)
        \/ ChannelNameResolved(p)
        \/ AllowFromResolved(p)
        \/ PairUserNameResolved(p)
        \/ UpsertReturned(p)
        \/ SendCompleted(p)
        \/ UserNameResolved(p)
        \/ MediaResolved(p)
        \/ ThreadStarterResolved(p)
        \/ StarterUserNameResolved(p)
        \/ ReactionSettled(p)

Spec == Init /\ [][Next]_vars

-----------------------------------------------------------------------------
(* Concurrent direct messages of unlisted senders under the pairing policy *)

PairingSenders == {"U1", "U2"}

InitPairing ==
    /\ ctx = [BaseCtx EXCEPT !.dmPolicy = "pairing"]
    /\ \E sender \in [Procs -> PairingSenders] :
          msg = [p \in Procs |->
                    Event("im", sender[p], None, <<"hi">>, "t" \o ToString(p), NoThread, <<>>)]
    /\ inst = [p \in Procs |-> InitLocals]
    /\ pairingStore = EmptyMap
    /\ channelHistories = EmptyMap
    /\ systemEvents = <<>>
    /\ gateIn = GateIdle
    /\ gateOut = NoGateCall

NextPairing ==
    \E p \in Procs :
        \/ Start(p)
        \/ AllowFromResolved(p)
        \/ PairUserNameResolved(p)
        \/ UpsertReturned(p)
        \/ SendCompleted(p)

SpecPairing == InitPairing /\ [][NextPairing]_vars

-----------------------------------------------------------------------------
(* Direct calls of resolveMentionGating, on every input *)

InitGate ==
    /\ ctx = BaseCtx
    /\ msg = [p \in Procs |-> NoEvent]
    /\ inst = [p \in Procs |-> IdleLocals]
    /\ pairingStore = EmptyMap
    /\ channelHistories = EmptyMap
    /\ systemEvents = <<>>
    /\ gateIn \in MentionGateParams
    /\ gateOut = NoGateCall

NextGate == ApplyGate

SpecGate == InitGate /\ [][NextGate]_vars

-----------------------------------------------------------------------------
(* Concurrent room and group messages that share the history windows *)

\* entries an earlier run of the pipeline left in a window, oldest first
OldEntries ==
    << [sender |-> "Bob", body |-> <<"old">>, messageId |-> "h1"],
       [sender |-> "Bob", body |-> <<"old">>, messageId |-> "h2"] >>

\* the events of the instances: a room message, two replies of different senders in
\* one thread of the room, and a group-DM message
HistoryEvents(ts) ==
    { Event("channel", "U1", None, <<"hi">>, ts, NoThread, <<>>),
      Event("channel", "U1", None, <<MentionOf(BotUser), " ", "hi">>, ts, OtherThread, <<>>),
      Event("channel", "U2", None, <<" ", "hi", " ">>, ts, OtherThread, <<>>),
      Event("mpim", "U1", None, <<"hi">>, ts, NoThread, <<>>) }

InitHistory ==
    /\ \E limit \in {1, 2}, scope \in {"thread", "channel"}, old \in 0..2 :
          /\ old <= limit
          /\ ctx = [BaseCtx EXCEPT !.historyLimit = limit,
                                   !.threadHistoryScope = scope,
                                   !.defaultRequireMention = FALSE,
                                   !.ackReactionScope = "none"]
          /\ channelHistories =
                IF old = 0 THEN EmptyMap
                ELSE [k \in {"C1", "G1", "agent:main:slack:channel:C1:thread:T0"} |->
                         SubSeq(OldEntries, 1, old)]
    /\ \E ms \in [Procs -> HistoryEvents("t")] :
          msg = [p \in Procs |-> [ms[p] EXCEPT !.ts = "t" \o ToString(p)]]
    /\ inst = [p \in Procs |-> InitLocals]
    /\ pairingStore = EmptyMap
    /\ systemEvents = <<>>
    /\ gateIn = GateIdle
    /\ gateOut = NoGateCall

NextHistory ==
    \E p \in Procs :
        \/ Start(p)
        \/ ChannelNameResolved(p)
        \/ AllowFromResolved(p)
        \/ UserNameResolved(p)
        \/ MediaResolved(p)
        \/ ThreadStarterResolved(p)
        \/ StarterUserNameResolved(p)

SpecHistory == InitHistory /\ [][NextHistory]_vars

-----------------------------------------------------------------------------
(* One message of every kind and fate, beside windows that earlier messages filled *)

\* a direct message, a group-DM message, and room messages: mentioned, not mentioned,
\* of a sender the channel does not list, of a bot, and with nothing but whitespace
FrameEvents ==
    { Event("im", "U1", None, <<"hi">>, "t1", NoThread, <<>>),
      Event("mpim", "U1", None, <<"hi">>, "t1", NoThread, <<>>),
      Event("channel", "U1", None, <<MentionOf(BotUser), " ", "hi">>, "t1", NoThread, <<>>),
      Event("channel", "U1", None, <<" ", "hi", " ">>, "t1", NoThread, <<>>),
      Event("channel", "U2", None, <<MentionOf(BotUser), " ", "hi">>, "t1", NoThread, <<>>),
      Event("channel", "U1", "B1", <<MentionOf(BotUser), " ", "hi">>, "t1", NoThread, <<>>),
      Event("channel", "U1", None, <<" ">>, "t1", BotThread, <<>>) }

\* the windows as earlier messages left them
OldWindows(old) ==
    IF old = 0 THEN EmptyMap
    ELSE [k \in {"C1", "G1", "agent:main:slack:channel:C1:thread:T0"} |->
             SubSeq(OldEntries, 1, old)]

InitFrame ==
    /\ \E limit \in 0..2, old \in 0..2, scope \in {"thread", "channel"} :
          /\ old <= limit
          /\ ctx = [BaseCtx EXCEPT !.historyLimit = limit,
                                   !.threadHistoryScope = scope,
                                   !.channelConfig =
                                       [allowBots |-> <<>>, users |-> {"U1"},
                                        requireMention |-> <<>>],
                                   !.ackReactionScope = "none"]
          /\ channelHistories = OldWindows(old)
    /\ \E m \in FrameEvents : msg = [p \in Procs |-> IF p = 1 THEN m ELSE NoEvent]
    /\ inst = [p \in Procs |-> IF p = 1 THEN InitLocals ELSE IdleLocals]
    /\ pairingStore = EmptyMap
    /\ systemEvents = <<>>
    /\ gateIn = GateIdle
    /\ gateOut = NoGateCall

SpecFrame == InitFrame /\ [][NextHistory]_vars

-----------------------------------------------------------------------------
(* Collaborators that raise *)

\* the awaits of prepareSlackMessage outside a try block (lines 45, 101, 120, 122,
\* 183, 239, 362, 368)
UnguardedAwaits ==
    {"resolveChannelName", "resolveAllowFrom", "pairResolveUserName", "upsert",
     "resolveUserName", "resolveMedia", "resolveThreadStarter", "resolveStarterUserName"}

\* the awaited collaborator rejects: no handler encloses the await, so the promise of
\* prepareSlackMessage rejects with the same error
ResolverRaised(p) ==
    /\ inst[p].pc \in UnguardedAwaits
    /\ Step(p, [inst[p] EXCEPT !.pc = "done", !.result = "threw"])
    /\ UNCHANGED <<pairingStore, channelHistories, systemEvents, Others>>

\* a reply in a thread of a room that needs no mention
InitThreadReply ==
    \E text \in {<<"hi">>, <<" ">>}, thread \in {BotThread, OtherThread},
       limit \in {0, 2}, scope \in {"none", "all"} :
        InitOne([BaseCtx EXCEPT !.defaultRequireMention = FALSE,
                                !.historyLimit = limit,
                                !.ackReactionScope = scope],
                Event("channel", "U1", None, text, "t1", thread, <<>>),
                EmptyMap)

InitFaults == InitDirect \/ InitThreadReply

NextFaults ==
    \/ Next
    \/ \E p \in Procs : ResolverRaised(p)

SpecFaults == InitFaults /\ [][NextFaults]_vars

-----------------------------------------------------------------------------
(* One message under every acknowledgment and thread configuration *)

\* values of ctx.ackReactionScope: the four the code tests for, and others
AckScopes ==
    {"none", "all", "direct", "direct-only", "group-all", "group-mentions",
     "group-mentions-only"}

\* a message of every kind, with and without a timestamp, under every reaction symbol,
\* scope and mention configuration
InitAck ==
    \E kind \in {"im", "channel", "mpim"}, ackReaction \in {None, "", "eyes"},
       scope \in AckScopes, ts \in {None, "t1"}, rm \in RequireMentionProfiles,
       botUserId \in {None, BotUser},
       text \in {<<"hi">>, <<MentionOf(BotUser), " ", "hi">>},
       thread \in {NoThread, BotThread} :
        InitOne([BaseCtx EXCEPT !.botUserId = botUserId,
                                !.ackReaction = ackReaction,
                                !.ackReactionScope = scope,
                                !.channelConfig =
                                    [allowBots |-> <<>>, users |-> {},
                                     requireMention |-> rm.chan],
                                !.defaultRequireMention = rm.default],
                Event(kind, "U1", None, text, ts, thread, <<>>),
                EmptyMap)

\* message.thread_ts: absent, empty, the id of the message itself, another message's id
ThreadIds == {None, "", "t1", "T0"}

\* a message with every thread id, with and without a parent sender, with and without
\* inheritance of the parent session
InitThread ==
    \E kind \in {"im", "channel", "mpim"}, tid \in ThreadIds, parent \in {None, "U2"},
       inherit \in BOOLEAN, scope \in {"thread", "channel"} :
        InitOne([BaseCtx EXCEPT !.threadInheritParent = inherit,
                                !.threadHistoryScope = scope,
                                !.defaultRequireMention = FALSE,
                                !.ackReactionScope = "none"],
                Event(kind, "U1", None, <<"hi">>, "t1",
                      [thread_ts |-> tid, parent_user_id |-> parent], <<>>),
                EmptyMap)

InitEnvelope == InitAck \/ InitThread

NextEnvelope ==
    \E p \in Procs :
        \/ Start(p)
        \/ ChannelNameResolved(p)
        \/ AllowFromResolved(p)
        \/ UserNameResolved(p)
        \/ MediaResolved(p)
        \/ ThreadStarterResolved(p)
        \/ StarterUserNameResolved(p)
        \/ ReactionSettled(p)

SpecEnvelope == InitEnvelope /\ [][NextEnvelope]_vars

-----------------------------------------------------------------------------
(* Properties *)

Called(p, name) == \E i \in DOMAIN inst[p].calls : inst[p].calls[i] = name

CountCalls(p, name) == Cardinality({i \in DOMAIN inst[p].calls : inst[p].calls[i] = name})

Evaluated(p, gate) == \E i \in DOMAIN inst[p].gates : inst[p].gates[i] = gate

\* the order of the gates in the specification of the pipeline
GateRank(gate) ==
    CASE gate = "self" -> 1
      [] gate = "botAllow" -> 2
      [] gate = "dmSender" -> 3
      [] gate = "senderId" -> 4
      [] gate = "channelAllowed" -> 5
      [] gate = "dmPolicy" -> 6
      [] gate = "roomAuth" -> 7
      [] gate = "mention" -> 8
      [] gate = "body" -> 9
      [] gate = "replyTarget" -> 10
      [] OTHER -> 0

\* the last gate a message must have passed before the collaborator is invoked
PassedBefore(call) ==
    CASE call = "resolveChannelName" -> 0
      [] call = "isChannelAllowed" -> 4
      [] call = "resolveSlackEffectiveAllowFrom" -> 5
      [] call = "resolveUserName" -> 5
      [] call = "upsertChannelPairingRequest" -> 5
      [] call = "sendMessageSlack" -> 5
      [] call = "resolveAgentRoute" -> 6
      [] call = "resolveSlackMedia" -> 8
      [] OTHER -> 9

C1_State ==
    \A p \in Procs :
        LET l == inst[p] IN
        /\ \A i, j \in DOMAIN l.gates : i < j => GateRank(l.gates[i]) < GateRank(l.gates[j])
        /\ l.result = "null" =>
              /\ l.pc = "done"
              /\ l.gates # <<>>
              /\ l.droppedAt = l.gates[Len(l.gates)]
              /\ \A i \in DOMAIN l.calls : PassedBefore(l.calls[i]) < GateRank(l.droppedAt)
              /\ l.ack = "none"
        /\ l.result = "envelope" => l.droppedAt = "none"

C1_Step ==
    \A p \in Procs :
        inst[p].result = "null" =>
            /\ inst'[p] = inst[p]
            /\ (\A q \in Procs \ {p} : inst'[q] = inst[q]) =>
                  UNCHANGED <<pairingStore, channelHistories, systemEvents>>

\* C1: the gates of one message are evaluated in the fixed order self, bot allowance,
\* direct-message sender, channel allowed, direct-message policy, room sender, mention,
\* body; the message is dropped at the first gate that disqualifies it, and after the
\* drop no later gate is evaluated and no later collaborator is invoked
C1_GateOrder == [](C1_State) /\ [][C1_Step]_vars

\* a room message dropped at the mention gate, after the earlier gates in order
C1_Witness ==
    /\ inst[1].droppedAt = "mention"
    /\ inst[1].gates = <<"dmSender", "senderId", "channelAllowed", "roomAuth", "mention">>
    /\ ~Called(1, "resolveSlackMedia")

FromSelf(m) == m.user # None /\ ctx.botUserId # None /\ m.user = ctx.botUserId

\* C2: a message whose sender id is the bot's own user id is always dropped, with no
\* pairing reply, no reaction and no history append, whatever the other inputs
C2_SelfAlwaysDropped ==
    \A p \in Procs :
        FromSelf(msg[p]) =>
            /\ inst[p].result # "envelope"
            /\ ~Called(p, "sendMessageSlack")
            /\ ~Called(p, "reactSlackMessage")
            /\ ~Called(p, "buildHistoryContextFromMap")

\* the sender id is on the configured allow-from list, compared case-insensitively
OnAllowList(m) == \E e \in ctx.allowFrom : Lower(e) = Lower(m.user)

\* the direct message has a sender id and has reached the direct-message policy
AtDmPolicy(p) ==
    isDirectMessage(msg[p]) /\ msg[p].user # None /\ Evaluated(p, "dmPolicy")

\* the instance has gone on to the gates after the direct-message policy
Proceeds(p) == Called(p, "resolveAgentRoute")

PolicyOutcome(p, drops) ==
    /\ drops =>
          /\ ~Proceeds(p)
          /\ inst[p].result # "envelope"
          /\ inst[p].pc = "done" => inst[p].droppedAt = "dmPolicy"
    /\ ~drops => inst[p].droppedAt # "dmPolicy" /\ Proceeds(p)
    /\ (drops /\ ctx.dmPolicy # "pairing") =>
          /\ ~Called(p, "upsertChannelPairingRequest")
          /\ ~Called(p, "sendMessageSlack")

\* C3 as stated: the policy drops exactly when it is disabled, or it is neither disabled
\* nor open and the sender is not on the allowlist
C3_DropsOnlyByPolicy ==
    \A p \in Procs :
        AtDmPolicy(p) =>
            PolicyOutcome(p, \/ ctx.dmPolicy = "disabled"
                             \/ (ctx.dmPolicy \notin {"disabled", "open"} /\ ~OnAllowList(msg[p])))

\* C3: the direct-message policy drops a direct message exactly when direct messages are
\* not enabled, or the policy is disabled, or the policy is not open and the sender id is
\* not on the allowlist; a drop under a mode other than pairing invokes neither the
\* pairing upsert nor an outbound send
C3_DmPolicyDrops ==
    \A p \in Procs :
        AtDmPolicy(p) =>
            PolicyOutcome(p, \/ ~ctx.dmEnabled
                             \/ ctx.dmPolicy = "disabled"
                             \/ (ctx.dmPolicy # "open" /\ ~OnAllowList(msg[p])))

\* an unlisted sender dropped under the allowlist policy, and a listed one let through
C3_Witness ==
    /\ AtDmPolicy(1)
    /\ ctx.dmEnabled
    /\ \/ ctx.dmPolicy = "allowlist" /\ ~OnAllowList(msg[1]) /\ inst[1].droppedAt = "dmPolicy"
       \/ ctx.dmPolicy = "pairing" /\ OnAllowList(msg[1]) /\ inst[1].result = "envelope"

SameSender(s) == {p \in Procs : msg[p].user = s}

\* C4: for the direct messages of one unlisted sender under the pairing policy, in any
\* interleaving of their pipelines, at most one upsert reports created and only that
\* instance dispatches a pairing reply, once; as soon as one upsert has returned exactly
\* one code exists for the sender and exactly one reply has been dispatched
C4_PairingIdempotent ==
    \A s \in PairingSenders :
        LET ps == SameSender(s)
            returned == {p \in ps : inst[p].pairCode # 0}
            created == {p \in ps : inst[p].pairCreated}
            replied == {p \in ps : Called(p, "sendMessageSlack")}
        IN  /\ Cardinality(created) <= 1
            /\ replied = created
            /\ \A p \in ps : CountCalls(p, "sendMessageSlack") <= 1
            /\ returned # {} =>
                  /\ Cardinality(created) = 1
                  /\ s \in DOMAIN pairingStore
                  /\ \A p \in returned : inst[p].pairCode = pairingStore[s]
            /\ returned = {} => s \notin DOMAIN pairingStore

\* two messages of one sender, both through the pairing subflow
C4_Witness ==
    /\ msg[1].user = msg[2].user
    /\ inst[1].pc = "done" /\ inst[2].pc = "done"
    /\ inst[1].pairCode # 0 /\ inst[2].pairCode # 0
    /\ inst[1].pairCreated # inst[2].pairCreated

\* an unlisted sender's direct message under the pairing policy
PairingCase(p) ==
    /\ AtDmPolicy(p)
    /\ ctx.dmPolicy = "pairing"
    /\ ~OnAllowList(msg[p])

\* C5: under the pairing policy the direct message of an unlisted sender is never
\* forwarded: it returns null whether the request was created or pending and whether the
\* reply was delivered or failed, on first contact only after the reply was dispatched,
\* and neither the route nor the history, the system events or the reaction are touched
C5_PairingNeverForwards ==
    \A p \in Procs :
        PairingCase(p) =>
            /\ inst[p].result # "envelope"
            /\ inst[p].pc = "done" =>
                  /\ inst[p].result = "null"
                  /\ inst[p].droppedAt = "dmPolicy"
                  /\ ctx.dmEnabled => inst[p].pairCode # 0
                  /\ inst[p].pairCreated => Called(p, "sendMessageSlack")
            /\ ~Called(p, "resolveAgentRoute")
            /\ ~Called(p, "buildHistoryContextFromMap")
            /\ ~Called(p, "enqueueSystemEvent")
            /\ ~Called(p, "reactSlackMessage")
            /\ inst[p].ack = "none"
            /\ systemEvents = <<>>
            /\ channelHistories = EmptyMap

\* first contact, the reply failed, the message is dropped all the same
C5_Witness ==
    /\ PairingCase(1)
    /\ inst[1].pc = "done"
    /\ inst[1].pairCreated
    /\ ~inst[1].sendOk
    /\ inst[1].result = "null"

\* an absent flag counts as false
Flag(opt) == opt # <<>> /\ opt[1]

\* C6: resolveMentionGating is the reference function: effectiveWasMentioned is
\* wasMentioned OR implicitMention OR shouldBypassMention, an absent flag counting as
\* false, and shouldSkip is requireMention AND canDetectMention AND NOT effectiveWasMentioned
C6_GateIsReference ==
    gateOut.called =>
        LET effective == \/ gateIn.wasMentioned
                         \/ Flag(gateIn.implicitMention)
                         \/ Flag(gateIn.shouldBypassMention)
        IN  /\ gateOut.result.effectiveWasMentioned = effective
            /\ gateOut.result.shouldSkip =
                  (gateIn.requireMention /\ gateIn.canDetectMention /\ ~effective)

\* a call with one flag absent and the mention satisfied by the bypass alone
C6_Witness ==
    /\ gateOut.called
    /\ gateIn.requireMention /\ gateIn.canDetectMention /\ ~gateIn.wasMentioned
    /\ gateIn.implicitMention = <<>>
    /\ gateIn.shouldBypassMention = <<TRUE>>
    /\ ~gateOut.result.shouldSkip

\* C7: when no mention can be detected (no bot user id, no mention pattern) the gate
\* never skips: resolveMentionGating returns shouldSkip = false on every input with
\* canDetectMention = false, and no message is dropped at the mention gate
C7_FailOpen ==
    /\ \A params \in MentionGateParams :
          ~params.canDetectMention => ~resolveMentionGating(params).shouldSkip
    /\ \A p \in Procs :
          (ctx.botUserId = None /\ ~ctx.mentionPatterns) => inst[p].droppedAt # "mention"

\* a room message that needs a mention and has none, let through the mention gate
C7_Witness ==
    /\ ctx.botUserId = None /\ ~ctx.mentionPatterns
    /\ isRoom(msg[1])
    /\ shouldRequireMention(msg[1])
    /\ Evaluated(1, "mention")
    /\ ~inst[1].effectiveWasMentioned
    /\ inst[1].result = "envelope"

\* the text holds no mention of a user and no word a configured mention pattern matches
NoMentionInText(m) == ~hasAnyMention(m.text) /\ ~matchesMentionPatterns(m.text)

\* a room message that needs a mention, has none in its text, and has reached the gate
UnmentionedAtGate(p) ==
    /\ isRoom(msg[p])
    /\ shouldRequireMention(msg[p])
    /\ Evaluated(p, "mention")
    /\ NoMentionInText(msg[p])

\* C8 as stated: a room message that needs a mention, has passed the earlier gates, and
\* whose text holds neither a mention nor a control command is dropped
C8_UnmentionedDropped ==
    \A p \in Procs :
        (UnmentionedAtGate(p) /\ ~hasControlCommand(msg[p].text)) =>
            inst[p].result = "null" /\ inst[p].droppedAt = "mention"

\* C8: such a message is dropped at the mention gate provided a mention can be detected
\* (the bot user id is known or a mention pattern is configured), the caller did not
\* report a mention (opts.wasMentioned is not true) and the message is not a reply in a
\* thread the bot started
C8_UnmentionedDroppedWhenDetectable ==
    \A p \in Procs :
        ( /\ UnmentionedAtGate(p)
          /\ ~hasControlCommand(msg[p].text)
          /\ (ctx.botUserId # None \/ ctx.mentionPatterns)
          /\ msg[p].optsWasMentioned # <<TRUE>>
          /\ ~(msg[p].thread_ts # None /\ msg[p].parent_user_id = ctx.botUserId) ) =>
            inst[p].result = "null" /\ inst[p].droppedAt = "mention"

\* the scenario: plain text in a room that needs a mention, dropped at the mention gate
C8_Witness ==
    /\ UnmentionedAtGate(1)
    /\ msg[1].text = <<" ", "hi", " ">>
    /\ msg[1].optsWasMentioned = <<>>
    /\ inst[1].droppedAt = "mention"

\* the forwarded envelope reports the mention, reached through the bypass
ForwardedByBypass(p) ==
    /\ inst[p].droppedAt = "none"
    /\ inst[p].shouldBypassMention
    /\ inst[p].effectiveWasMentioned
    /\ inst[p].pc = "done" =>
          /\ inst[p].result = "envelope"
          /\ inst[p].payload[1].WasMentioned = <<TRUE>>

\* C9 as stated: a room message that needs a mention, has none in its text, holds a
\* control command and comes from an authorized sender is forwarded with
\* effectiveWasMentioned = true through the bypass
C9_CommandBypasses ==
    \A p \in Procs :
        ( /\ UnmentionedAtGate(p)
          /\ hasControlCommand(msg[p].text)
          /\ inst[p].commandAuthorized ) => ForwardedByBypass(p)

\* C9: such a message is forwarded through the bypass provided text-command handling is
\* enabled and the caller did not report a mention (opts.wasMentioned is not true)
C9_CommandBypassesWhenEnabled ==
    \A p \in Procs :
        ( /\ UnmentionedAtGate(p)
          /\ hasControlCommand(msg[p].text)
          /\ inst[p].commandAuthorized
          /\ ctx.textCommands
          /\ msg[p].optsWasMentioned # <<TRUE>> ) => ForwardedByBypass(p)

\* the scenario: a control command without a mention, forwarded as mentioned
C9_Witness ==
    /\ UnmentionedAtGate(1)
    /\ hasControlCommand(msg[1].text)
    /\ ctx.botUserId # None
    /\ inst[1].result = "envelope"
    /\ inst[1].shouldBypassMention
    /\ inst[1].payload[1].WasMentioned = <<TRUE>>

\* the text without its leading and trailing whitespace
Trimmed(text) ==
    LET keep == {i \in DOMAIN text : (\E j \in 1..i : text[j] # " ")
                                      /\ (\E j \in i..Len(text) : text[j] # " ")}
    IN  [i \in 1..Cardinality(keep) |->
            text[CHOOSE k \in keep : Cardinality({j \in keep : j < k}) = i - 1]]

\* C10: a message whose trimmed text is empty and whose media yields no placeholder is
\* dropped whatever gates it has passed; otherwise the body is the trimmed text when
\* that is not empty and the media placeholder when it is
C10_EmptyBodyDropped ==
    \A p \in Procs :
        Evaluated(p, "body") =>
            LET text == Trimmed(msg[p].text)
                l == inst[p]
            IN  /\ (text = <<>> /\ l.placeholder = None) =>
                      l.result = "null" /\ l.droppedAt = "body"
                /\ text # <<>> => l.droppedAt = "none" /\ l.rawBody = text
                /\ (text = <<>> /\ l.placeholder # None) =>
                      l.droppedAt = "none" /\ l.rawBody = <<l.placeholder>>
                /\ l.result = "envelope" => l.payload[1].RawBody = l.rawBody

\* a whitespace-only room message without media, dropped after every other gate passed
C10_Witness ==
    /\ inst[1].droppedAt = "body"
    /\ msg[1].text = <<" ">>
    /\ isRoom(msg[1])
    /\ inst[1].gates =
          <<"dmSender", "senderId", "channelAllowed", "roomAuth", "mention", "body">>

-----------------------------------------------------------------------------
(* Properties of the history windows, the session keys and the side effects *)

\* the newest n elements of a sequence
LastN(s, n) == IF Len(s) > n THEN SubSeq(s, Len(s) - n + 1, Len(s)) ELSE s

\* the position of the message in the order in which the messages were admitted
AdmittedAt(id) ==
    IF \E i \in DOMAIN systemEvents : systemEvents[i].messageId = id
    THEN CHOOSE i \in DOMAIN systemEvents : systemEvents[i].messageId = id
    ELSE 0

C11_State ==
    \A k \in DOMAIN channelHistories :
        LET w == channelHistories[k] IN
        /\ Len(w) <= ctx.historyLimit
        /\ \A i, j \in DOMAIN w : i < j => AdmittedAt(w[i].messageId) < AdmittedAt(w[j].messageId)
                                           \/ AdmittedAt(w[i].messageId) = 0

C11_Step ==
    \A k \in DOMAIN channelHistories' :
        LET old == HistoryOf(channelHistories, k)
            new == channelHistories'[k]
        IN  new # old =>
                \E p \in Procs :
                    /\ inst[p].pc = "resolveMedia"
                    /\ inst'[p].historyKey = k
                    /\ new = LastN(Append(old, [sender |-> inst'[p].senderName,
                                                body |-> inst'[p].rawBody,
                                                messageId |-> msg[p].ts]),
                                   ctx.historyLimit)

\* C11: with a history limit N > 0, in every interleaving of the in-flight instances,
\* no history window ever holds more than N entries; a window changes only by the
\* append of the entry of an admitted message at its end, the oldest entry leaving
\* when there would be more than N, and the retained entries keep the order in which
\* they were appended
C11_HistoryBounded == [](C11_State) /\ [][C11_Step]_vars

\* a full window of two after two concurrent appends: both old entries are gone and
\* the two new entries are in the order of their appends
C11_Witness ==
    /\ ctx.historyLimit = 2
    /\ "C1" \in DOMAIN channelHistories
    /\ Len(channelHistories["C1"]) = 2
    /\ channelHistories["C1"][1].messageId = "t2"
    /\ channelHistories["C1"][2].messageId = "t1"
    /\ AdmittedAt("t2") < AdmittedAt("t1")

\* the instance has returned an envelope
Forwarded(p) == inst[p].pc = "done" /\ inst[p].result = "envelope"

\* C12: the session key of a forwarded message is fixed by the base session key of its
\* route and its thread id: two thread replies with the same route and thread id carry
\* the same SessionKey whatever their text, sender and mention state, a message that
\* is no thread reply carries the base session key, and the key of a thread reply
\* differs from the key of a message of the same route that is no thread reply
C12_SessionKeyStable ==
    \A p, q \in Procs :
        (Forwarded(p) /\ Forwarded(q) /\ baseSessionKey(msg[p]) = baseSessionKey(msg[q])) =>
            LET kp == inst[p].payload[1].SessionKey
                kq == inst[q].payload[1].SessionKey
            IN  /\ (/\ isThreadReply(msg[p]) /\ isThreadReply(msg[q])
                    /\ msg[p].thread_ts = msg[q].thread_ts) => kp = kq
                /\ ~isThreadReply(msg[q]) => kq = baseSessionKey(msg[q])
                /\ (isThreadReply(msg[p]) /\ ~isThreadReply(msg[q])) => kp # kq

\* two replies in one thread, of different senders, one with a mention and one without,
\* forwarded with the same session key
C12_Witness ==
    /\ Forwarded(1) /\ Forwarded(2)
    /\ isThreadReply(msg[1]) /\ isThreadReply(msg[2])
    /\ msg[1].thread_ts = msg[2].thread_ts
    /\ msg[1].user # msg[2].user
    /\ msg[1].text # msg[2].text
    /\ inst[1].payload[1].WasMentioned # inst[2].payload[1].WasMentioned
    /\ inst[1].payload[1].Body # inst[2].payload[1].Body
    /\ inst[1].payload[1].SessionKey = inst[2].payload[1].SessionKey
    /\ inst[1].payload[1].SessionKey # baseSessionKey(msg[1])

C13_State ==
    \A p \in Procs :
        LET l == inst[p] IN
        /\ CountCalls(p, "sendMessageSlack") <= 1
        /\ CountCalls(p, "reactSlackMessage") <= 1
        /\ Called(p, "sendMessageSlack") =>
              /\ l.result # "envelope"
              /\ l.pc = "done" => l.result = "null"
              /\ ~Called(p, "reactSlackMessage")
        /\ l.result = "envelope" => ~Called(p, "sendMessageSlack")
        /\ Called(p, "reactSlackMessage") =>
              /\ l.droppedAt = "none"
              /\ Evaluated(p, "body")
              /\ l.pc = "done" => l.result = "envelope"
        /\ l.pc = "done" <=> l.result \in {"null", "envelope"}

C13_Step ==
    \A p \in Procs :
        inst[p].pc = "done" =>
            /\ inst'[p].result = inst[p].result
            /\ inst'[p].calls = inst[p].calls

\* C13: a message has one outcome: once a pairing reply is dispatched the message is
\* never forwarded, a forwarded message has dispatched no pairing reply, at most one
\* pairing reply and at most one reaction are initiated for it, a reaction is initiated
\* only for a message that no gate drops, and after the return the outcome stays and
\* no side effect is initiated again
C13_OneOutcome == [](C13_State) /\ [][C13_Step]_vars

\* a direct message of a listed sender under the pairing policy: forwarded, the
\* reaction sent once and failed, no pairing reply
C13_Witness ==
    /\ Forwarded(1)
    /\ isDirectMessage(msg[1])
    /\ ctx.dmPolicy = "pairing"
    /\ CountCalls(1, "reactSlackMessage") = 1
    /\ inst[1].ack = "failed"
    /\ ~Called(1, "sendMessageSlack")

\* C14: a call of prepareSlackMessage never ends in a thrown error: when a resolver of
\* required data raises, the call resolves to null, and every finished call has
\* returned null or an envelope
C14_NeverThrows ==
    \A p \in Procs :
        /\ inst[p].result # "threw"
        /\ inst[p].pc = "done" => inst[p].result \in {"null", "envelope"}

\* the envelope the instance would return had its reaction succeeded
EnvelopeWithAck(p, ack) ==
    Finish([inst[p] EXCEPT !.ack = ack, !.pc = "building", !.result = "pending",
                           !.payload = NoPayload],
           msg[p], inst[p].payload[1].ThreadStarterBody).payload

C15_State ==
    \A p \in Procs :
        LET l == inst[p] IN
        /\ CountCalls(p, "sendMessageSlack") <= 1
        /\ CountCalls(p, "reactSlackMessage") <= 1
        /\ (Called(p, "sendMessageSlack") /\ l.pc = "done") =>
              l.result = "null" /\ l.droppedAt = "dmPolicy"
        /\ l.ack \in {"ok", "failed"} =>
              /\ l.droppedAt = "none"
              /\ l.pc = "done" => l.result = "envelope"
        /\ Forwarded(p) => l.payload = EnvelopeWithAck(p, "ok")

C15_Step ==
    \A p \in Procs :
        /\ (inst[p].ack = "pending" /\ inst'[p].ack # "pending") =>
              /\ inst'[p].ack \in {"ok", "failed"}
              /\ inst'[p] = [inst[p] EXCEPT !.ack = inst'[p].ack]
        /\ (inst[p].pc = "sendPairingReply" /\ inst'[p] # inst[p]) =>
              inst'[p] = [inst[p] EXCEPT !.pc = "done", !.result = "null",
                                         !.droppedAt = "dmPolicy",
                                         !.sendOk = inst'[p].sendOk]

\* C15: the failure of a side effect leaves the outcome alone: whether the pairing
\* reply is delivered or fails the call returns null, and whether the reaction
\* succeeds or fails the message is forwarded with the same envelope, the failure
\* showing only in the reaction's own result; neither side effect is initiated twice
C15_SideEffectFailureIgnored == [](C15_State) /\ [][C15_Step]_vars

\* a thread reply whose reaction failed, forwarded with its thread-starter block
C15_Witness ==
    /\ Forwarded(1)
    /\ inst[1].ack = "failed"
    /\ isThreadReply(msg[1])
    /\ inst[1].payload[1].ThreadStarterBody # <<>>
    /\ inst[1].payload = EnvelopeWithAck(1, "ok")

\* the collaborators invoked while the envelope is put together (lines 312-368)
EnvelopeCalls ==
    {"enqueueSystemEvent", "buildHistoryContextFromMap", "resolveSlackThreadStarter",
     "resolveUserName"}

\* C16: the reaction is initiated only after the envelope (history context,
\* thread-starter block, payload) has been constructed: once reactSlackMessage has
\* been called the payload exists and no collaborator of the envelope's construction
\* is invoked any more
C16_AckAfterEnvelope ==
    \A p \in Procs :
        \A i \in DOMAIN inst[p].calls :
            inst[p].calls[i] = "reactSlackMessage" =>
                /\ inst[p].payload # NoPayload
                /\ \A j \in DOMAIN inst[p].calls :
                      j > i => inst[p].calls[j] \notin EnvelopeCalls

\* the message has passed every gate up to the body
Admitted(p) == Evaluated(p, "body") /\ inst[p].droppedAt = "none"

\* the scope admits the message, `direct` and `mentions` being the names of the scopes
\* for direct messages and for mentioned room messages
AckScopeAdmits(p, direct, mentions) ==
    LET m == msg[p]
        scope == ctx.ackReactionScope
    IN  \/ scope = "all"
        \/ scope = direct /\ m.channel_type = "im"
        \/ scope = "group-all" /\ m.channel_type \in {"channel", "group", "mpim"}
        \/ /\ scope = mentions
           /\ m.channel_type \in {"channel", "group"}
           /\ shouldRequireMention(m)
           /\ (ctx.botUserId # None \/ ctx.mentionPatterns)
           /\ inst[p].effectiveWasMentioned

AckScheduledIff(p, direct, mentions) ==
    Admitted(p) =>
        (Called(p, "reactSlackMessage") <=>
            /\ ctx.ackReaction \notin {None, ""}
            /\ msg[p].ts # None
            /\ AckScopeAdmits(p, direct, mentions))

\* C17 as stated: the reaction is scheduled for an admitted message exactly when a
\* symbol is configured, the message has a timestamp and the scope admits it, the
\* scopes being all, direct-only, group-all and group-mentions-only
C17_AckScope == \A p \in Procs : AckScheduledIff(p, "direct-only", "group-mentions-only")

\* C17: the reaction is scheduled for an admitted message exactly when a symbol is
\* configured, the message has a timestamp and the scope admits it: all admits every
\* message, direct the direct messages, group-all the room and group messages,
\* group-mentions a room message that needs a mention, can be checked for one and is
\* mentioned; every other value of the scope admits nothing
C17_AckScopeAsConfigured == \A p \in Procs : AckScheduledIff(p, "direct", "group-mentions")

\* a mentioned room message acknowledged under the scope group-mentions
C17_Witness ==
    /\ Admitted(1)
    /\ ctx.ackReactionScope = "group-mentions"
    /\ isRoom(msg[1])
    /\ inst[1].effectiveWasMentioned
    /\ Called(1, "reactSlackMessage")

\* the message has a non-empty thread id that differs from its own id, or has one
\* together with a parent sender id
IsReply(m) ==
    /\ m.thread_ts \notin {None, ""}
    /\ (m.thread_ts # m.ts \/ m.parent_user_id # None)

\* C18: a message is treated as a thread reply exactly when it has a non-empty thread
\* id and the thread id differs from the message id or a parent sender id is present;
\* the SessionKey of a thread reply is the base key scoped by the thread and its
\* ParentSessionKey is the base key exactly when inheritance is configured, absent
\* otherwise; a message that is no thread reply carries the base key as SessionKey and
\* no ParentSessionKey, whatever the inheritance setting
C18_ThreadReplyKeys ==
    \A p \in Procs :
        LET m == msg[p]
            base == baseSessionKey(m)
        IN  /\ Called(p, "resolveSlackThreadStarter") => IsReply(m)
            /\ Forwarded(p) =>
                  LET pl == inst[p].payload[1] IN
                  /\ Called(p, "resolveSlackThreadStarter") <=> IsReply(m)
                  /\ IsReply(m) =>
                        /\ pl.SessionKey = base \o ":thread:" \o m.thread_ts
                        /\ pl.SessionKey # base
                        /\ pl.ParentSessionKey = base <=> ctx.threadInheritParent
                        /\ ~ctx.threadInheritParent => pl.ParentSessionKey = None
                  /\ ~IsReply(m) =>
                        /\ pl.SessionKey = base
                        /\ pl.ParentSessionKey = None

\* a message whose thread id is its own id and that names a parent sender: a thread
\* reply, forwarded without a parent session key when inheritance is off
C18_Witness ==
    /\ Forwarded(1)
    /\ msg[1].thread_ts = msg[1].ts
    /\ msg[1].parent_user_id # None
    /\ ~ctx.threadInheritParent
    /\ inst[1].payload[1].SessionKey # baseSessionKey(msg[1])
    /\ inst[1].payload[1].ParentSessionKey = None

\* the history key of the message: the thread session key under the thread-local
\* scope (`repliesOnly`: for thread replies only), the channel id otherwise
KeyByScope(p, repliesOnly) ==
    IF ctx.threadHistoryScope = "thread" /\ (repliesOnly => IsReply(msg[p]))
    THEN threadKeys(msg[p]).sessionKey
    ELSE msg[p].channel

HistoryKeyState(repliesOnly) ==
    \A p \in Procs : Admitted(p) => inst[p].historyKey = KeyByScope(p, repliesOnly)

\* the step that admits a room or group message appends its entry to the window of
\* its history key and leaves the other windows alone
HistoryKeyStep(repliesOnly) ==
    \A p \in Procs :
        ( /\ inst[p].pc = "resolveMedia"
          /\ Admitted(p)'
          /\ msg[p].channel_type # "im"
          /\ ctx.historyLimit > 0 ) =>
            LET k == KeyByScope(p, repliesOnly) IN
            /\ k \in DOMAIN channelHistories'
            /\ channelHistories'[k] # <<>>
            /\ channelHistories'[k][Len(channelHistories'[k])].messageId = msg[p].ts
            /\ \A k2 \in DOMAIN channelHistories' \ {k} :
                  channelHistories'[k2] = HistoryOf(channelHistories, k2)

\* C19 as stated: the history key of every admitted message, thread reply or not, is
\* the thread session key under the thread-local scope and the channel id otherwise,
\* and the entry of a room or group message is appended to the window of that key
C19_HistoryKeyByScope == [](HistoryKeyState(FALSE)) /\ [][HistoryKeyStep(FALSE)]_vars

\* C19: the history key of an admitted message is the thread session key when the
\* message is a thread reply and the scope is thread-local, and the channel id
\* otherwise (a message that is no thread reply, or any other scope); the entry of a
\* room or group message is appended to the window of exactly that key
C19_HistoryKeyOfThreadReply == [](HistoryKeyState(TRUE)) /\ [][HistoryKeyStep(TRUE)]_vars

\* under the thread-local scope: a thread reply recorded under its thread session key
\* and a message of the same room that is no reply recorded under the channel id
C19_Witness ==
    /\ ctx.threadHistoryScope = "thread"
    /\ Forwarded(1) /\ Forwarded(2)
    /\ isThreadReply(msg[1]) /\ ~isThreadReply(msg[2])
    /\ msg[1].channel = msg[2].channel
    /\ inst[1].historyKey = inst[1].payload[1].SessionKey
    /\ inst[2].historyKey = msg[2].channel
    /\ inst[1].historyKey \in DOMAIN channelHistories
    /\ inst[2].historyKey \in DOMAIN channelHistories
    /\ \E i \in DOMAIN channelHistories[inst[1].historyKey] :
          channelHistories[inst[1].historyKey][i].messageId = msg[1].ts
    /\ \E i \in DOMAIN channelHistories[inst[2].historyKey] :
          channelHistories[inst[2].historyKey][i].messageId = msg[2].ts

\* some window holds an entry of the message
Recorded(p) ==
    \E k \in DOMAIN channelHistories :
        \E i \in DOMAIN channelHistories[k] : channelHistories[k][i].messageId = msg[p].ts

\* the message takes no part in the history: a direct message, or no history limit
OutsideHistory(p) == msg[p].channel_type = "im" \/ ctx.historyLimit = 0

C20_State ==
    \A p \in Procs :
        /\ (OutsideHistory(p) \/ inst[p].result = "null") => ~Recorded(p)
        /\ (Forwarded(p) /\ OutsideHistory(p)) =>
              inst[p].payload[1].Body =
                  [context |-> <<>>,
                   current |-> [from |-> inst[p].senderName, body |-> inst[p].rawBody,
                                id |-> msg[p].ts, channel |-> msg[p].channel]]

C20_Step ==
    channelHistories' # channelHistories =>
        \E p \in Procs :
            /\ msg[p].channel_type \in {"channel", "group", "mpim"}
            /\ ctx.historyLimit > 0
            /\ inst[p].pc = "resolveMedia"
            /\ Admitted(p)'
            /\ inst'[p].result # "null"

\* C20: the history windows change only in the step that admits a room or group
\* message under a history limit N > 0: a direct message, a message processed with
\* N = 0 and a message dropped at any gate leave every window as it was, and the Body
\* of a forwarded direct message, or of any message forwarded with N = 0, is the
\* formatted current message alone, without history context
C20_HistoryFrame == [](C20_State) /\ [][C20_Step]_vars

\* a direct message forwarded beside full windows: the windows hold the old entries
\* only and the Body carries no context
C20_Witness ==
    /\ Forwarded(1)
    /\ isDirectMessage(msg[1])
    /\ ctx.historyLimit = 2
    /\ channelHistories = OldWindows(2)
    /\ inst[1].payload[1].Body.context = <<>>

====
